---- MODULE Spec2Model ----
(***************************************************************************)
(* CleanIT: a Flask + SQLite booking site for a home-cleaning service.     *)
(* The model covers the persistent store (services, service_pricing,       *)
(* bookings, booking_options, payments), the price calculator and the      *)
(* request handlers of app.py that read or write those tables.             *)
(*                                                                         *)
(* Python strings that the code inspects (substring search, strip, int())  *)
(* are sequences of one-character strings; strings that are only stored    *)
(* and compared are TLA+ strings.  An optional value (a form field that    *)
(* may be absent, a parameter that may be None) is a set with at most one  *)
(* element: {} is absent/None, {v} is the value v.  Prices are integers.   *)
(***************************************************************************)
EXTENDS Integers, Sequences, FiniteSets, TLC

VARIABLES
    services,         \* table services: set of rows [id, name, base_price]
    service_pricing,  \* table service_pricing: rows in rowid order
    pricing_seq,      \* sqlite_sequence entry of service_pricing (AUTOINCREMENT)
    bookings,         \* table bookings: set of rows
    booking_seq,      \* sqlite_sequence entry of bookings
    booking_options,  \* table booking_options: set of rows
    payments,         \* table payments: set of rows
    payment_seq,      \* sqlite_sequence entry of payments
    last,             \* the last call handled and what it answered
    requests          \* per server thread, the payment submission it is serving

vars == <<services, service_pricing, pricing_seq, bookings, booking_seq,
          booking_options, payments, payment_seq, last, requests>>

catalog == <<services, service_pricing, pricing_seq>>
orders == <<bookings, booking_seq, booking_options, payments, payment_seq>>

\* The threads of the server that serve requests at the same time.
Threads == {"t1", "t2"}

(***************************************************************************)
(* Bounds of the model.                                                    *)
(***************************************************************************)
MaxRules == 2            \* pricing rules in a catalog drawn for the calculator
MaxBookings == 2         \* bookings ever created (caps booking_seq)
MaxCatalogBookings == 1  \* the same, where the catalog changes as well
MaxPricingId == 6        \* pricing-rule ids ever assigned (caps pricing_seq)
MaxRaceBookings == 1     \* bookings ever created while submissions race

(***************************************************************************)
(* Strings the code inspects.                                              *)
(***************************************************************************)
Bedroom == <<"B", "e", "d", "r", "o", "o", "m">>
Bathroom == <<"B", "a", "t", "h", "r", "o", "o", "m">>
LabelBedroom == <<"E", "x", "t", "r", "a", " ">> \o Bedroom
LabelBathroom == <<"E", "x", "t", "r", "a", " ">> \o Bathroom
LabelBoth == Bedroom \o <<" ", "+", " ">> \o Bathroom
LabelWindow == <<"W", "i", "n", "d", "o", "w">>
LabelLower == <<"b", "e", "d", "r", "o", "o", "m">>
LabelHourly == <<"H", "o", "u", "r", "l", "y">>
LabelTier == <<"T", "i", "e", "r">>
StandardService == <<"S", "t", "a", "n", "d", "a", "r", "d", " ",
                     "S", "e", "r", "v", "i", "c", "e">>

\* Python's `sub in s` on strings.
Contains(s, sub) ==
    \E i \in 1..(Len(s) - Len(sub) + 1) : SubSeq(s, i, i + Len(sub) - 1) = sub

\* Python's str.strip(): leading and trailing whitespace removed.
RECURSIVE lstrip(_)
lstrip(s) == IF s # <<>> /\ Head(s) = " " THEN lstrip(Tail(s)) ELSE s

RECURSIVE rstrip(_)
rstrip(s) ==
    IF s # <<>> /\ s[Len(s)] = " " THEN rstrip(SubSeq(s, 1, Len(s) - 1)) ELSE s

strip(s) == lstrip(rstrip(s))

Digits == <<"0", "1", "2", "3", "4", "5", "6", "7", "8", "9">>

IsDigit(c) == \E d \in 1..10 : Digits[d] = c

DigitVal(c) == (CHOOSE d \in 1..10 : Digits[d] = c) - 1

RECURSIVE DigitsVal(_)
DigitsVal(s) ==
    IF s = <<>> THEN 0
    ELSE 10 * DigitsVal(SubSeq(s, 1, Len(s) - 1)) + DigitVal(s[Len(s)])

\* Python's int(str): surrounding whitespace and one sign are accepted, then
\* one or more decimal digits; anything else raises ValueError.
Unsigned(s) == IF s # <<>> /\ Head(s) \in {"-", "+"} THEN Tail(s) ELSE s

int_ok(s) ==
    LET u == Unsigned(strip(s))
    IN u # <<>> /\ \A i \in 1..Len(u) : IsDigit(u[i])

int(s) ==
    LET t == strip(s)
    IN IF t # <<>> /\ Head(t) = "-" THEN 0 - DigitsVal(Unsigned(t))
       ELSE DigitsVal(Unsigned(t))

(***************************************************************************)
(* Optional values.                                                        *)
(***************************************************************************)
None == {}

Some(v) == {v}

The(o) == CHOOSE v \in o : TRUE

\* dict.get(key, default) on a form whose fields are optional values.
get(form, key, default) == IF form[key] = None THEN default ELSE The(form[key])

\* No thread is serving a payment submission.
NoRequests == [t \in Threads |-> None]

(***************************************************************************)
(* services.py                                                             *)
(***************************************************************************)
RECURSIVE SelectRows(_, _)
\* The rows of service_pricing that belong to one service, in rowid order.
SelectRows(rows, service_id) ==
    IF rows = <<>> THEN <<>>
    ELSE IF Head(rows).service_id = service_id
         THEN <<Head(rows)>> \o SelectRows(Tail(rows), service_id)
         ELSE SelectRows(Tail(rows), service_id)

\* get_service: None, or the service row with its pricing rules nested.
get_service(service_id) ==
    IF \E s \in services : s.id = service_id
    THEN LET s == CHOOSE s \in services : s.id = service_id
         IN Some([id |-> s.id, name |-> s.name, base_price |-> s.base_price,
                  pricing |-> SelectRows(service_pricing, service_id)])
    ELSE None

(***************************************************************************)
(* calculate_price                                                         *)
(***************************************************************************)
\* `if pricing_id` on an optional integer: None and 0 are falsy.
Truthy(pricing_id) == pricing_id # None /\ pricing_id # Some(0)

\* The loop body of calculate_price with the charge a bug would make:
\* every bedroom and bathroom is charged, the first one included.
apply_rule_first_unit_charged(total_price, p, bedroom_qty, bath_qty, hours, pricing_id) ==
    IF p.rule_type = "per_room"
    THEN total_price
         + (IF Contains(p.label, Bedroom) /\ bedroom_qty > 1
            THEN p.price * bedroom_qty ELSE 0)
         + (IF Contains(p.label, Bathroom) /\ bath_qty > 1
            THEN p.price * bath_qty ELSE 0)
    ELSE IF p.rule_type = "hourly" /\ hours > 0
    THEN total_price + p.price * hours
    ELSE IF p.rule_type \in {"flat_rate", "flat_tier"}
            /\ Truthy(pricing_id) /\ Some(p.id) = pricing_id
    THEN p.price
    ELSE total_price

\* The loop body with the hourly charge made incremental like a room charge.
apply_rule_hourly_incremental(total_price, p, bedroom_qty, bath_qty, hours, pricing_id) ==
    IF p.rule_type = "per_room"
    THEN total_price
         + (IF Contains(p.label, Bedroom) /\ bedroom_qty > 1
            THEN p.price * (bedroom_qty - 1) ELSE 0)
         + (IF Contains(p.label, Bathroom) /\ bath_qty > 1
            THEN p.price * (bath_qty - 1) ELSE 0)
    ELSE IF p.rule_type = "hourly" /\ hours > 0
    THEN total_price + p.price * (hours - 1)
    ELSE IF p.rule_type \in {"flat_rate", "flat_tier"}
            /\ Truthy(pricing_id) /\ Some(p.id) = pricing_id
    THEN p.price
    ELSE total_price

\* One iteration of `for p in service['pricing']`: the new total_price.
apply_rule(total_price, p, bedroom_qty, bath_qty, hours, pricing_id) ==
    IF p.rule_type = "per_room"
    THEN total_price
         + (IF Contains(p.label, Bedroom) /\ bedroom_qty > 1
            THEN p.price * (bedroom_qty - 1) ELSE 0)
         + (IF Contains(p.label, Bathroom) /\ bath_qty > 1
            THEN p.price * (bath_qty - 1) ELSE 0)
    ELSE IF p.rule_type = "hourly" /\ hours > 0
    THEN total_price + p.price * hours
    ELSE IF p.rule_type \in {"flat_rate", "flat_tier"}
            /\ Truthy(pricing_id) /\ Some(p.id) = pricing_id
    THEN p.price
    ELSE total_price

RECURSIVE price_loop(_, _, _, _, _, _)
\* The values of the local total_price: before the loop, then after each rule.
price_loop(totals, pricing, bedroom_qty, bath_qty, hours, pricing_id) ==
    IF pricing = <<>> THEN totals
    ELSE price_loop(
            Append(totals, apply_rule(totals[Len(totals)], Head(pricing),
                                      bedroom_qty, bath_qty, hours, pricing_id)),
            Tail(pricing), bedroom_qty, bath_qty, hours, pricing_id)

\* calculate_price raises ValueError("Invalid service ID").
calculate_price_raises(service_id) == get_service(service_id) = None

calculate_price_totals(service_id, bedroom_qty, bath_qty, hours, pricing_id) ==
    LET service == The(get_service(service_id))
    IN price_loop(<<service.base_price>>, service.pricing,
                  bedroom_qty, bath_qty, hours, pricing_id)

calculate_price(service_id, bedroom_qty, bath_qty, hours, pricing_id) ==
    LET totals == calculate_price_totals(service_id, bedroom_qty, bath_qty,
                                         hours, pricing_id)
    IN totals[Len(totals)]

(***************************************************************************)
(* The calculator on its own: any catalog of up to MaxRules rules, any     *)
(* call.                                                                   *)
(***************************************************************************)
RuleKinds ==
    { [service_id |-> 1, rule_type |-> "per_room", label |-> LabelBedroom, price |-> 50],
      [service_id |-> 1, rule_type |-> "per_room", label |-> LabelBathroom, price |-> 30],
      [service_id |-> 1, rule_type |-> "per_room", label |-> LabelBoth, price |-> 40],
      [service_id |-> 1, rule_type |-> "per_room", label |-> LabelLower, price |-> 10],
      [service_id |-> 1, rule_type |-> "hourly", label |-> LabelHourly, price |-> 20],
      [service_id |-> 1, rule_type |-> "flat_rate", label |-> StandardService, price |-> 800],
      [service_id |-> 1, rule_type |-> "flat_tier", label |-> LabelTier, price |-> 1200],
      [service_id |-> 1, rule_type |-> "custom", label |-> LabelWindow, price |-> 5],
      [service_id |-> 2, rule_type |-> "flat_rate", label |-> StandardService, price |-> 300] }

BasePrices == {0, 500}

\* A rule read from the seed file becomes a row with the next rowid.
PricingRow(id, p) ==
    [id |-> id, service_id |-> p.service_id, rule_type |-> p.rule_type,
     label |-> p.label, price |-> p.price]

CalcQtys == {0, 1, 3}
CalcBaths == {1, 2}
CalcHours == {0, 3}
CalcServiceIds == {1, 3}
CalcPricingIds == {None} \cup {Some(i) : i \in 0..MaxRules}

NoCall == [op |-> "start"]

\* The catalog is any seed file of up to MaxRules rules loaded into a fresh
\* store, and `last` holds a call of calculate_price that has not run yet.
InitPrice ==
    /\ \E base \in BasePrices :
         services = { [id |-> 1, name |-> "Regular Cleaning", base_price |-> base],
                      [id |-> 2, name |-> "Deep Cleaning", base_price |-> 300] }
    /\ \E n \in 0..MaxRules :
         \E rules \in [1..n -> RuleKinds] :
            /\ service_pricing = [i \in 1..n |-> PricingRow(i, rules[i])]
            /\ pricing_seq = n
    /\ bookings = {}
    /\ booking_seq = 0
    /\ booking_options = {}
    /\ payments = {}
    /\ payment_seq = 0
    /\ requests = NoRequests
    /\ \E service_id \in CalcServiceIds, bedroom_qty \in CalcQtys,
          bath_qty \in CalcBaths, hours \in CalcHours, pricing_id \in CalcPricingIds :
         last = [op |-> "calculate_price", pc |-> "called",
                 service_id |-> service_id, bedroom_qty |-> bedroom_qty,
                 bath_qty |-> bath_qty, hours |-> hours, pricing_id |-> pricing_id,
                 raised |-> FALSE, totals |-> <<>>, result |-> 0]

\* The call of calculate_price runs; `last` keeps the arguments, the
\* successive values of total_price and the value returned.
CalculatePrice ==
    /\ last.op = "calculate_price"
    /\ last.pc = "called"
    /\ last' =
         IF calculate_price_raises(last.service_id)
         THEN [last EXCEPT !.pc = "returned", !.raised = TRUE]
         ELSE [last EXCEPT
                 !.pc = "returned",
                 !.totals = calculate_price_totals(last.service_id, last.bedroom_qty,
                                last.bath_qty, last.hours, last.pricing_id),
                 !.result = calculate_price(last.service_id, last.bedroom_qty,
                                last.bath_qty, last.hours, last.pricing_id)]
    /\ UNCHANGED <<catalog, orders, requests>>

NextPrice == CalculatePrice

SpecPrice == InitPrice /\ [][NextPrice]_vars

(***************************************************************************)
(* database.py                                                             *)
(***************************************************************************)
\* db_connection with the rollback taken out: what was written is kept even
\* when the block never commits.
db_connection_autocommit(before, after, committed) == after

\* `with db_connection() as conn:` closes the connection on exit and never
\* commits: what the block wrote is kept only if the block called
\* conn.commit(), otherwise sqlite3 rolls it back on close.
db_connection(before, after, committed) == IF committed THEN after ELSE before

(***************************************************************************)
(* load_services_and_pricing: the seed files replace the catalog tables.   *)
(* Services keep the ids of the file; pricing rules carry no id and get    *)
(* the next AUTOINCREMENT rowids.                                          *)
(***************************************************************************)
DefA ==
    [services |-> { [id |-> 1, name |-> "Regular Cleaning", base_price |-> 500],
                    [id |-> 2, name |-> "Deep Cleaning", base_price |-> 1000] },
     pricing_rules |->
        << [service_id |-> 1, rule_type |-> "per_room", label |-> LabelBedroom, price |-> 100],
           [service_id |-> 1, rule_type |-> "flat_rate", label |-> StandardService, price |-> 800] >>]

DefB ==
    [services |-> { [id |-> 1, name |-> "Regular Cleaning", base_price |-> 600],
                    [id |-> 2, name |-> "Deep Cleaning", base_price |-> 1000] },
     pricing_rules |->
        << [service_id |-> 1, rule_type |-> "flat_tier", label |-> LabelTier, price |-> 1200],
           [service_id |-> 1, rule_type |-> "per_room", label |-> LabelBedroom, price |-> 50],
           [service_id |-> 2, rule_type |-> "hourly", label |-> LabelHourly, price |-> 20] >>]

CatalogDefs == {DefA, DefB}

\* What `last` keeps of a call: the handler, the status code it answered,
\* the text (or redirect target, or branch taken) of the answer and, for
\* some calls, the arguments of the request.
Reply(op, code, note, req) == [op |-> op, code |-> code, note |-> note, req |-> req]

load_services_and_pricing(def) ==
    /\ services' = def.services
    /\ service_pricing' =
         [i \in 1..Len(def.pricing_rules) |->
            PricingRow(pricing_seq + i, def.pricing_rules[i])]
    /\ pricing_seq' = pricing_seq + Len(def.pricing_rules)
    /\ last' = Reply("load_services_and_pricing", 0, "loaded", <<>>)
    /\ UNCHANGED orders

\* A fresh store after init_db() and the first load_services_and_pricing().
InitWith(defs) ==
    /\ \E def \in defs :
         /\ services = def.services
         /\ service_pricing =
              [i \in 1..Len(def.pricing_rules) |-> PricingRow(i, def.pricing_rules[i])]
         /\ pricing_seq = Len(def.pricing_rules)
    /\ bookings = {}
    /\ booking_seq = 0
    /\ booking_options = {}
    /\ payments = {}
    /\ payment_seq = 0
    /\ last = NoCall
    /\ requests = NoRequests

(***************************************************************************)
(* bookings.py                                                             *)
(***************************************************************************)
\* The row create_booking would insert if the total price were dropped on
\* the way (the .get default 0.0 used).
create_booking_default_total(id, service_id, pricing_id, customer_info) ==
    [id |-> id, service_id |-> service_id, pricing_id |-> pricing_id,
     customer_name |-> customer_info.name,
     customer_email |-> customer_info.email,
     customer_phone |-> customer_info.phone,
     date |-> customer_info.date,
     bedroom_qty |-> customer_info.bedroom_qty,
     bath_qty |-> customer_info.bath_qty,
     hours |-> customer_info.hours,
     total_price |-> 0]

\* The row create_booking inserts; id is cursor.lastrowid.
create_booking(id, service_id, pricing_id, customer_info) ==
    [id |-> id, service_id |-> service_id, pricing_id |-> pricing_id,
     customer_name |-> customer_info.name,
     customer_email |-> customer_info.email,
     customer_phone |-> customer_info.phone,
     date |-> customer_info.date,
     bedroom_qty |-> customer_info.bedroom_qty,
     bath_qty |-> customer_info.bath_qty,
     hours |-> customer_info.hours,
     total_price |-> customer_info.total_price]

PricingRowsWithId(id) ==
    {i \in 1..Len(service_pricing) : service_pricing[i].id = id}

\* get_booking: the booking joined (inner joins) with its service and with
\* the pricing rule its pricing_id names; None when any of the three is
\* missing.
get_booking(booking_id) ==
    IF \E b \in bookings :
          /\ b.id = booking_id
          /\ \E s \in services : s.id = b.service_id
          /\ PricingRowsWithId(b.pricing_id) # {}
    THEN LET b == CHOOSE b \in bookings : b.id = booking_id
             s == CHOOSE s \in services : s.id = b.service_id
             sp == service_pricing[CHOOSE i \in PricingRowsWithId(b.pricing_id) : TRUE]
         IN Some([id |-> b.id, service_id |-> b.service_id,
                  total_price |-> b.total_price,
                  service_name |-> s.name, pricing_label |-> sp.label,
                  pricing_price |-> sp.price, rule_type |-> sp.rule_type,
                  original_pricing_id |-> sp.id])
    ELSE None

\* get_payment and the SELECT of the payment handler.
get_payment(booking_id) == {p \in payments : p.booking_id = booking_id}

(***************************************************************************)
(* book: GET renders the booking page, POST creates the booking.           *)
(***************************************************************************)
\* The page creating a default rule on every rendering.
needs_default_pricing_always(pricing_options) == TRUE

\* `if not pricing_options`
needs_default_pricing(pricing_options) == pricing_options = <<>>

\* The rule inserted for a service that has none.
default_pricing(id, service) ==
    [id |-> id, service_id |-> service.id, rule_type |-> "flat_rate",
     label |-> StandardService, price |-> service.base_price]

book_get(service_id) ==
    IF get_service(service_id) = None
    THEN /\ last' = Reply("book_get", 404, "Service not found", <<service_id>>)
         /\ UNCHANGED <<catalog, orders>>
    ELSE LET service == The(get_service(service_id))
             pricing_options == SelectRows(service_pricing, service_id)
         IN IF needs_default_pricing(pricing_options)
            THEN /\ service_pricing' =
                      Append(service_pricing, default_pricing(pricing_seq + 1, service))
                 /\ pricing_seq' = pricing_seq + 1
                 /\ last' = Reply("book_get", 200, "default rule created", <<service_id>>)
                 /\ UNCHANGED <<services, orders>>
            ELSE /\ last' = Reply("book_get", 200, "rendered", <<service_id>>)
                 /\ UNCHANGED <<catalog, orders>>

\* int(request.form.get(key, default)) succeeds.
form_int_ok(form, key) == form[key] = None \/ int_ok(The(form[key]))

form_int(form, key, default) ==
    IF form[key] = None THEN default ELSE int(The(form[key]))

CustomerKeys == {"name", "email", "phone", "date"}

book_post(service_id, form) ==
    IF get_service(service_id) = None
    THEN /\ last' = Reply("book_post", 404, "Service not found", <<>>)
         /\ UNCHANGED <<catalog, orders>>
    ELSE IF ~(/\ form_int_ok(form, "bedroom_qty")
              /\ form_int_ok(form, "bath_qty")
              /\ form_int_ok(form, "hours"))
    THEN /\ last' = Reply("book_post", 400, "Input Error", <<>>)
         /\ UNCHANGED <<catalog, orders>>
    ELSE IF form.pricing_id = None \/ form.pricing_id = Some(<<>>)
    THEN /\ last' = Reply("book_post", 400, "Pricing option is required", <<>>)
         /\ UNCHANGED <<catalog, orders>>
    ELSE IF ~int_ok(The(form.pricing_id))
    THEN /\ last' = Reply("book_post", 400, "Input Error", <<>>)
         /\ UNCHANGED <<catalog, orders>>
    ELSE IF \E k \in CustomerKeys : form[k] = None
    THEN \* request.form[k] raises BadRequestKeyError before create_booking runs
         /\ last' = Reply("book_post", 400, "Bad Request", <<>>)
         /\ UNCHANGED <<catalog, orders>>
    ELSE LET bedroom_qty == form_int(form, "bedroom_qty", 1)
             bath_qty == form_int(form, "bath_qty", 1)
             hours == form_int(form, "hours", 0)
             pricing_id == int(The(form.pricing_id))
             total_price == calculate_price(service_id, bedroom_qty, bath_qty,
                                            hours, Some(pricing_id))
             customer_info ==
                [name |-> The(form.name), email |-> The(form.email),
                 phone |-> The(form.phone), date |-> The(form.date),
                 bedroom_qty |-> bedroom_qty, bath_qty |-> bath_qty,
                 hours |-> hours, total_price |-> total_price]
         IN /\ bookings' = bookings \cup
                 {create_booking(booking_seq + 1, service_id, pricing_id, customer_info)}
            /\ booking_seq' = booking_seq + 1
            /\ last' = Reply("book_post", 302, "payment", <<>>)
            /\ UNCHANGED <<catalog, booking_options, payments, payment_seq>>

(***************************************************************************)
(* payment: GET shows the form, POST with confirm=yes moves on to the      *)
(* confirmation page, any other POST submits the payment details.          *)
(***************************************************************************)
\* The amount taken from the joined pricing rule instead of the booking.
payment_amount_from_rule(booking) == booking.pricing_price

\* The amount written to the payments row: booking['total_price'].
payment_amount(booking) == booking.total_price

\* The UPDATE also putting the status back to its default.
update_payment_resets_status(p, street_address, city, province, region, payment_method, amount) ==
    [p EXCEPT !.street_address = street_address, !.city = city,
              !.province = province, !.region = region,
              !.payment_method = payment_method, !.amount = amount,
              !.payment_status = "pending"]

\* UPDATE payments SET street_address, city, province, region,
\* payment_method, amount WHERE booking_id = ?
update_payment(p, street_address, city, province, region, payment_method, amount) ==
    [p EXCEPT !.street_address = street_address, !.city = city,
              !.province = province, !.region = region,
              !.payment_method = payment_method, !.amount = amount]

\* INSERT INTO payments (...): payment_status takes its column default.
insert_payment(id, booking_id, street_address, city, province, region, payment_method, amount) ==
    [id |-> id, booking_id |-> booking_id, street_address |-> street_address,
     city |-> city, province |-> province, region |-> region,
     payment_method |-> payment_method, payment_status |-> "pending",
     amount |-> amount]

\* The handler never taking the UPDATE branch.
payment_found_never(payment) == FALSE

\* `if payment:` on the row fetched at the top of the handler.
payment_found(payment) == payment # {}

\* The text shown in the modal after a submission.
instruction(payment_method, amount) ==
    IF payment_method = "Cash" THEN [text |-> "ready cash", amount |-> Some(amount)]
    ELSE IF payment_method = "Card" THEN [text |-> "card gateway", amount |-> None]
    ELSE IF payment_method = "GCASH" THEN [text |-> "send to GCASH", amount |-> Some(amount)]
    ELSE [text |-> "Invalid payment method.", amount |-> None]

AddressKeys == {"street_address", "city", "province", "region"}

\* The field taken as submitted, white space kept.
form_unstripped(form, key) == get(form, key, <<>>)

\* request.form.get(key, '').strip()
form_stripped(form, key) == strip(get(form, key, <<>>))

\* The payments table without the UNIQUE constraint on booking_id.
unique_violation_unenforced(rows, booking_id) == FALSE

\* booking_id INTEGER UNIQUE: an INSERT for a booking that has a row fails.
unique_violation(rows, booking_id) == \E p \in rows : p.booking_id = booking_id

\* The handler from its validation on.  `booking` and `payment` are the rows
\* it fetched at its top; the UNIQUE constraint is checked against the table
\* as it is when the INSERT runs.
payment_write(booking_id, form, booking, payment) ==
    LET street_address == form_stripped(form, "street_address")
        city == form_stripped(form, "city")
        province == form_stripped(form, "province")
        region == form_stripped(form, "region")
        payment_method == form.payment_method
    IN IF \E k \in AddressKeys : form_stripped(form, k) = <<>>
       THEN /\ last' = Reply("payment", 200, "Please fill in all address fields.", <<form>>)
            /\ UNCHANGED <<catalog, orders>>
       ELSE IF payment_method = None \/ payment_method = Some("")
       THEN /\ last' = Reply("payment", 200, "Please select a payment method.", <<form>>)
            /\ UNCHANGED <<catalog, orders>>
       ELSE IF payment_found(payment)
       THEN /\ payments' =
                 {IF p.booking_id = booking_id
                  THEN update_payment(p, street_address, city, province, region,
                                      The(payment_method), payment_amount(booking))
                  ELSE p : p \in payments}
            /\ last' = Reply("payment", 200, "updated", <<booking_id, form>>)
            /\ UNCHANGED <<catalog, bookings, booking_seq, booking_options, payment_seq>>
       ELSE IF unique_violation(payments, booking_id)
       THEN \* the INSERT raises IntegrityError
            /\ last' = Reply("payment", 500, "IntegrityError", <<booking_id, form>>)
            /\ UNCHANGED <<catalog, orders>>
       ELSE /\ payments' = payments \cup
                 {insert_payment(payment_seq + 1, booking_id, street_address, city,
                                 province, region, The(payment_method),
                                 payment_amount(booking))}
            /\ payment_seq' = payment_seq + 1
            /\ last' = Reply("payment", 200, "inserted", <<booking_id, form>>)
            /\ UNCHANGED <<catalog, bookings, booking_seq, booking_options>>

\* A submission served alone: the reads and the write with nothing between.
payment_submit(booking_id, form) ==
    payment_write(booking_id, form, The(get_booking(booking_id)), get_payment(booking_id))

payment(booking_id, method, form) ==
    IF get_booking(booking_id) = None
    THEN /\ last' = Reply("payment", 404, "Booking not found", <<>>)
         /\ UNCHANGED <<catalog, orders>>
    ELSE IF method = "POST" /\ form.confirm = Some("yes")
    THEN /\ last' = Reply("payment", 302, "confirmation", <<>>)
         /\ UNCHANGED <<catalog, orders>>
    ELSE IF method = "POST"
    THEN payment_submit(booking_id, form)
    ELSE /\ last' = Reply("payment", 200, "form", <<>>)
         /\ UNCHANGED <<catalog, orders>>

confirmation(booking_id) ==
    /\ last' = IF get_booking(booking_id) = None
               THEN Reply("confirmation", 404, "Booking not found", <<>>)
               ELSE Reply("confirmation", 200, "rendered", <<>>)
    /\ UNCHANGED <<catalog, orders>>

(***************************************************************************)
(* Admin operations.                                                       *)
(***************************************************************************)
\* UPDATE bookings SET customer_name, customer_email, customer_phone, date
update_booking_row(b, data) ==
    [b EXCEPT !.customer_name = The(data.customer_name),
              !.customer_email = The(data.customer_email),
              !.customer_phone = The(data.customer_phone),
              !.date = The(data.date)]

\* UPDATE payments SET street_address, city, province, region,
\* payment_method, payment_status
update_booking_payment_row(p, pay) ==
    [p EXCEPT !.street_address = The(pay.street_address), !.city = The(pay.city),
              !.province = The(pay.province), !.region = The(pay.region),
              !.payment_method = The(pay.payment_method),
              !.payment_status = The(pay.payment_status)]

BookingKeys == {"customer_name", "customer_email", "customer_phone", "date"}
PaymentKeys == {"street_address", "city", "province", "region",
                "payment_method", "payment_status"}

\* data[k] raises KeyError before conn.commit(): nothing is kept.
update_booking_raises(data) ==
    \/ \E k \in BookingKeys : data[k] = None
    \/ /\ data.payment # None
       /\ \E k \in PaymentKeys : The(data.payment)[k] = None

update_booking(booking_id, data) ==
    IF update_booking_raises(data)
    THEN /\ last' = Reply("update_booking", 500, "KeyError", <<>>)
         /\ UNCHANGED <<catalog, orders>>
    ELSE /\ bookings' = {IF b.id = booking_id THEN update_booking_row(b, data) ELSE b :
                           b \in bookings}
         /\ payments' =
              IF data.payment = None THEN payments
              ELSE {IF p.booking_id = booking_id
                    THEN update_booking_payment_row(p, The(data.payment)) ELSE p :
                       p \in payments}
         /\ last' = Reply("update_booking", 200, "Booking updated successfully", <<>>)
         /\ UNCHANGED <<catalog, booking_seq, booking_options, payment_seq>>

\* The cascade with the DELETE FROM payments left out.
delete_from_payments_skipped(rows, booking_ids) == rows

\* DELETE FROM payments / booking_options WHERE booking_id = ?, for each id
delete_from_payments(rows, booking_ids) ==
    {r \in rows : r.booking_id \notin booking_ids}

delete_from_booking_options(rows, booking_ids) ==
    {r \in rows : r.booking_id \notin booking_ids}

\* DELETE FROM bookings WHERE id = ?, for each id
delete_from_bookings(rows, booking_ids) == {r \in rows : r.id \notin booking_ids}

delete_booking(booking_id) ==
    /\ payments' = delete_from_payments(payments, {booking_id})
    /\ booking_options' = delete_from_booking_options(booking_options, {booking_id})
    /\ bookings' = delete_from_bookings(bookings, {booking_id})
    /\ last' = Reply("delete_booking", 200, "Booking deleted successfully", <<booking_id>>)
    /\ UNCHANGED <<catalog, booking_seq, payment_seq>>

\* UPDATE payments SET payment_status = ? WHERE booking_id = ?, for each id
set_payment_status(rows, booking_ids, new_status) ==
    {IF p.booking_id \in booking_ids THEN [p EXCEPT !.payment_status = new_status]
     ELSE p : p \in rows}

\* update_id arrives as text; the INTEGER column's affinity converts it.
update_payment_status(update_id, new_status) ==
    /\ payments' = IF int_ok(update_id)
                   THEN set_payment_status(payments, {int(update_id)}, new_status)
                   ELSE payments
    /\ last' = Reply("update_payment_status", 302, "show_bookings", <<>>)
    /\ UNCHANGED <<catalog, bookings, booking_seq, booking_options, payment_seq>>

\* A value of the request's JSON array booking_ids: a number, or a nested
\* array, which sqlite3 cannot bind as a parameter.
JsonInt(n) == [type |-> "int", value |-> n]

JsonList == [type |-> "list", value |-> 0]

Bindable(v) == v.type = "int"

\* executemany() runs the statement for each id in turn and raises at the
\* first id it cannot bind: these are the ids it ran the statement for.
Executed(booking_ids) ==
    {booking_ids[i].value : i \in {k \in 1..Len(booking_ids) :
                                     \A j \in 1..k : Bindable(booking_ids[j])}}

ExecutemanyRaises(booking_ids) ==
    \E i \in 1..Len(booking_ids) : ~Bindable(booking_ids[i])

\* All statements run on one connection; conn.commit() is reached only when
\* none of them raised, otherwise the connection is closed uncommitted and
\* the handler answers 500.
bulk_update_bookings(booking_ids, action) ==
    IF booking_ids = <<>> \/ action = None \/ action = Some("")
    THEN /\ last' = Reply("bulk_update_bookings", 400, "Missing booking IDs or action", <<>>)
         /\ UNCHANGED <<catalog, orders>>
    ELSE LET ids == Executed(booking_ids)
             raised == /\ action \in {Some("mark_paid"), Some("cancel"), Some("delete")}
                       /\ ExecutemanyRaises(booking_ids)
             payments_after ==
                 IF action = Some("mark_paid")
                 THEN set_payment_status(payments, ids, "paid")
                 ELSE IF action = Some("cancel")
                 THEN set_payment_status(payments, ids, "cancelled")
                 ELSE IF action = Some("delete")
                 THEN delete_from_payments(payments, ids)
                 ELSE payments
             booking_options_after ==
                 IF action = Some("delete") /\ ~raised
                 THEN delete_from_booking_options(booking_options, ids)
                 ELSE booking_options
             bookings_after ==
                 IF action = Some("delete") /\ ~raised
                 THEN delete_from_bookings(bookings, ids)
                 ELSE bookings
         IN /\ payments' = db_connection(payments, payments_after, ~raised)
            /\ booking_options' =
                 db_connection(booking_options, booking_options_after, ~raised)
            /\ bookings' = db_connection(bookings, bookings_after, ~raised)
            /\ last' = IF raised
                       THEN Reply("bulk_update_bookings", 500, "error", <<>>)
                       ELSE Reply("bulk_update_bookings", 200, The(action), <<>>)
            /\ UNCHANGED <<catalog, booking_seq, payment_seq>>

\* The largest id of a table's rows, 0 for an empty table.
MaxId(rows) ==
    IF rows = {} THEN 0 ELSE CHOOSE m \in {r.id : r \in rows} : \A r \in rows : r.id <= m

\* float(request.form.get('price')): None and non-numeric text raise.
float_ok(price) == price # None /\ int_ok(The(price))

\* The INSERT of add_service runs inside db_connection() and the handler
\* returns without conn.commit().
add_service(name, price) ==
    IF ~float_ok(price)
    THEN /\ last' = Reply("add_service", 500, "error", <<>>)
         /\ UNCHANGED <<catalog, orders>>
    ELSE LET id == 1 + MaxId(services)
             inserted == services \cup
                 {[id |-> id, name |-> name, base_price |-> int(The(price))]}
         IN /\ services' = db_connection(services, inserted, FALSE)
            /\ last' = Reply("add_service", 200, "Service added successfully", <<>>)
            /\ UNCHANGED <<service_pricing, pricing_seq, orders>>

(***************************************************************************)
(* Requests.                                                               *)
(***************************************************************************)
RECURSIVE str(_)
\* Python's str(n) for n >= 0.
str(n) == IF n < 10 THEN <<Digits[n + 1]>> ELSE str(n \div 10) \o <<Digits[(n % 10) + 1]>>

Ann == [name |-> Some("Ann"), email |-> Some("ann@example.com"),
        phone |-> Some("0917"), date |-> Some("2025-01-10")]

BookForm(bedroom_qty, bath_qty, hours, pricing_id, customer) ==
    [bedroom_qty |-> bedroom_qty, bath_qty |-> bath_qty, hours |-> hours,
     pricing_id |-> pricing_id, name |-> customer.name, email |-> customer.email,
     phone |-> customer.phone, date |-> customer.date]

Elm == <<"1", " ", "E", "l", "m">>
Oak == <<" ", "2", " ", "O", "a", "k", " ">>
Town == <<"T", "o", "w", "n">>

PaymentForm(confirm, street_address, city, province, region, payment_method) ==
    [confirm |-> confirm, street_address |-> street_address, city |-> city,
     province |-> province, region |-> region, payment_method |-> payment_method]

\* The ids a request may name: every id ever assigned and one never assigned.
BookingIdInputs == 1..(booking_seq + 1)

(***************************************************************************)
(* Spec: the life of bookings and payments over the catalog of DefA.       *)
(***************************************************************************)
Init == InitWith({DefA})

OrderBookForms == { BookForm(Some(<<"2">>), None, None, Some(str(1)), Ann) }

OrderPaymentForms ==
    { PaymentForm(None, Some(Elm), Some(Town), Some(Town), Some(Town), Some("Cash")),
      PaymentForm(None, Some(Oak), Some(Town), Some(Town), Some(Town), Some("GCASH")),
      PaymentForm(None, Some(<<" ">>), Some(Town), Some(Town), Some(Town), Some("Cash")),
      PaymentForm(None, Some(Elm), Some(Town), Some(Town), Some(Town), None),
      PaymentForm(Some("yes"), None, None, None, None, None) }

AdminPayment(street_address, payment_method, payment_status) ==
    [street_address |-> Some(street_address), city |-> Some(Town),
     province |-> Some(Town), region |-> Some(Town),
     payment_method |-> Some(payment_method), payment_status |-> payment_status]

AdminEdit(date, pay) ==
    [customer_name |-> Some("Ann"), customer_email |-> Some("ann@example.com"),
     customer_phone |-> Some("0917"), date |-> date, payment |-> pay]

OrderEdits ==
    { AdminEdit(Some("2025-01-10"), Some(AdminPayment(Elm, "Cash", Some("cancelled")))),
      AdminEdit(Some("2025-01-10"), Some(AdminPayment(Elm, "Cash", None))) }

Statuses == {"pending", "paid", "cancelled"}

BulkActions == {None, Some("mark_paid"), Some("cancel"), Some("delete")}

\* No id, one id, every id, and the first id followed by a value that is
\* no id.
BulkIdInputs ==
    {<<>>, [i \in 1..booking_seq |-> JsonInt(i)], <<JsonInt(1), JsonList>>}
    \cup {<<JsonInt(b)>> : b \in 1..booking_seq}

NoForm == PaymentForm(None, None, None, None, None, None)

Next ==
    \/ /\ UNCHANGED requests
       /\ /\ booking_seq < MaxBookings
          /\ \E form \in OrderBookForms : book_post(1, form)
    \/ /\ UNCHANGED requests
       /\ \E b \in BookingIdInputs, form \in OrderPaymentForms : payment(b, "POST", form)
    \/ /\ UNCHANGED requests
       /\ \E b \in BookingIdInputs : payment(b, "GET", NoForm)
    \/ /\ UNCHANGED requests
       /\ \E b \in BookingIdInputs : confirmation(b)
    \/ /\ UNCHANGED requests
       /\ \E b \in BookingIdInputs, data \in OrderEdits : update_booking(b, data)
    \/ /\ UNCHANGED requests
       /\ \E b \in BookingIdInputs : delete_booking(b)
    \/ /\ UNCHANGED requests
       /\ \E b \in BookingIdInputs, new_status \in Statuses :
             update_payment_status(str(b), new_status)
    \/ /\ UNCHANGED requests
       /\ \E booking_ids \in BulkIdInputs, action \in BulkActions :
             bulk_update_bookings(booking_ids, action)

Spec == Init /\ [][Next]_vars

(***************************************************************************)
(* SpecCatalog: bookings made while the catalog changes under them: the    *)
(* site restarts on the same seed file or on one with other prices, pages  *)
(* create default rules, the admin adds services.                          *)
(***************************************************************************)
ServiceIdInputs == {1, 2, 9}

\* The pricing options the rendered page offers for a service.
OfferedPricingIds(service_id) ==
    {service_pricing[i].id : i \in {j \in 1..Len(service_pricing) :
                                      service_pricing[j].service_id = service_id}}

CatalogBookForms(service_id) ==
    {BookForm(Some(<<"2">>), None, None, Some(str(id)), Ann) :
        id \in OfferedPricingIds(service_id)}

CatalogPaymentForms ==
    { PaymentForm(None, Some(Elm), Some(Town), Some(Town), Some(Town), Some("Cash")) }

CatalogEdits == { AdminEdit(Some("2025-02-20"), None) }

ServiceForms ==
    { [name |-> "Event Cleaning", price |-> Some(<<"1", "5", "0", "0">>)],
      [name |-> "Event Cleaning", price |-> None] }

NextCatalog ==
    \/ /\ UNCHANGED requests
       /\ \E def \in CatalogDefs :
             /\ pricing_seq + Len(def.pricing_rules) <= MaxPricingId
             /\ load_services_and_pricing(def)
    \/ /\ UNCHANGED requests
       /\ \E form \in ServiceForms : add_service(form.name, form.price)
    \/ /\ UNCHANGED requests
       /\ /\ pricing_seq < MaxPricingId
          /\ \E service_id \in ServiceIdInputs : book_get(service_id)
    \/ /\ UNCHANGED requests
       /\ /\ booking_seq < MaxCatalogBookings
          /\ \E service_id \in ServiceIdInputs :
               \E form \in CatalogBookForms(service_id) : book_post(service_id, form)
    \/ /\ UNCHANGED requests
       /\ \E b \in BookingIdInputs, form \in CatalogPaymentForms : payment(b, "POST", form)
    \/ /\ UNCHANGED requests
       /\ \E b \in BookingIdInputs, data \in CatalogEdits : update_booking(b, data)
    \/ /\ UNCHANGED requests
       /\ \E b \in BookingIdInputs : update_payment_status(str(b), "paid")

InitCatalog == InitWith(CatalogDefs)

SpecCatalog == InitCatalog /\ [][NextCatalog]_vars

(***************************************************************************)
(* SpecBooking: the booking form posted with every kind of input.          *)
(***************************************************************************)
Customers ==
    { Ann,
      [Ann EXCEPT !.name = None], [Ann EXCEPT !.name = Some("")],
      [Ann EXCEPT !.email = None], [Ann EXCEPT !.email = Some("")],
      [Ann EXCEPT !.phone = None], [Ann EXCEPT !.phone = Some("")],
      [Ann EXCEPT !.date = None], [Ann EXCEPT !.date = Some("")] }

\* No pricing id, an empty one, one that is no number, the flat rule of the
\* service, the id the default rule of service 2 gets, an id of no rule.
PricingIdInputs == {None, Some(<<>>), Some(<<"x">>), Some(str(2)), Some(str(3)), Some(str(9))}

\* Two bedrooms and no pricing option chosen.
NoPricingForm == BookForm(Some(<<"2">>), None, None, None, Ann)

WideBookForms ==
    {BookForm(None, None, None, pricing_id, customer) :
        pricing_id \in PricingIdInputs, customer \in Customers}
    \cup {NoPricingForm,
          BookForm(Some(<<"x">>), None, None, Some(str(2)), Ann),
          BookForm(Some(<<" ", "3">>), Some(<<"2">>), Some(<<"-", "1">>), Some(str(1)), Ann)}

NextBooking ==
    \/ /\ UNCHANGED requests
       /\ /\ booking_seq < MaxBookings
          /\ \E service_id \in ServiceIdInputs, form \in WideBookForms :
               book_post(service_id, form)
    \/ /\ UNCHANGED requests
       /\ /\ pricing_seq < MaxPricingId
          /\ \E service_id \in ServiceIdInputs : book_get(service_id)
    \/ /\ UNCHANGED requests
       /\ \E b \in BookingIdInputs : payment(b, "GET", NoForm)

SpecBooking == Init /\ [][NextBooking]_vars

(***************************************************************************)
(* SpecFlow: a customer's way from the booking to the confirmation, the    *)
(* payment form posted with every kind of input.                           *)
(***************************************************************************)
ValidCash == PaymentForm(None, Some(Elm), Some(Town), Some(Town), Some(Town), Some("Cash"))

ConfirmForm == PaymentForm(Some("yes"), None, None, None, None, None)

FlowPaymentForms ==
    { ValidCash,
      PaymentForm(None, Some(Oak), Some(Town), Some(Town), Some(Town), Some("Bitcoin")),
      [ValidCash EXCEPT !.street_address = Some(<<" ">>)],
      [ValidCash EXCEPT !.city = Some(<<>>)],
      [ValidCash EXCEPT !.payment_method = None],
      [ValidCash EXCEPT !.payment_method = Some("")],
      ConfirmForm }
    \cup { [ValidCash EXCEPT ![k] = None] : k \in AddressKeys }

NextFlow ==
    \/ /\ UNCHANGED requests
       /\ /\ booking_seq < MaxBookings
          /\ \E form \in OrderBookForms : book_post(1, form)
    \/ /\ UNCHANGED requests
       /\ \E b \in BookingIdInputs, form \in FlowPaymentForms : payment(b, "POST", form)
    \/ /\ UNCHANGED requests
       /\ \E b \in BookingIdInputs : payment(b, "GET", NoForm)
    \/ /\ UNCHANGED requests
       /\ \E b \in BookingIdInputs : confirmation(b)
    \/ /\ UNCHANGED requests
       /\ \E b \in BookingIdInputs : update_payment_status(str(b), "paid")

SpecFlow == Init /\ [][NextFlow]_vars

(***************************************************************************)
(* SpecRace: payment submissions served by two threads at once, each doing *)
(* the reads at the top of the handler and, in a later step, its write,    *)
(* while bookings are created and the admin deletes them.                  *)
(***************************************************************************)
RacePaymentForms ==
    { ValidCash,
      PaymentForm(None, Some(Oak), Some(Town), Some(Town), Some(Town), Some("GCASH")) }

\* The top of the handler on thread t: get_booking and the SELECT of the
\* booking's payment.  An unknown booking is answered at once.
payment_read(t, booking_id, form) ==
    /\ requests[t] = None
    /\ IF get_booking(booking_id) = None
       THEN /\ last' = Reply("payment", 404, "Booking not found", <<>>)
            /\ UNCHANGED requests
       ELSE /\ requests' = [requests EXCEPT ![t] =
                                Some([booking_id |-> booking_id, form |-> form,
                                      booking |-> The(get_booking(booking_id)),
                                      payment |-> get_payment(booking_id)])]
            /\ UNCHANGED last
    /\ UNCHANGED <<catalog, orders>>

\* The rest of the handler on thread t, with the rows it read before.
payment_finish(t) ==
    /\ requests[t] # None
    /\ LET r == The(requests[t])
       IN payment_write(r.booking_id, r.form, r.booking, r.payment)
    /\ requests' = [requests EXCEPT ![t] = None]

NextRace ==
    \/ /\ UNCHANGED requests
       /\ booking_seq < MaxRaceBookings
       /\ \E form \in OrderBookForms : book_post(1, form)
    \/ \E t \in Threads, b \in BookingIdInputs, form \in RacePaymentForms :
          payment_read(t, b, form)
    \/ \E t \in Threads : payment_finish(t)
    \/ /\ UNCHANGED requests
       /\ \E b \in BookingIdInputs : delete_booking(b)
    \/ /\ UNCHANGED requests
       /\ \E booking_ids \in BulkIdInputs : bulk_update_bookings(booking_ids, Some("delete"))

SpecRace == Init /\ [][NextRace]_vars

(***************************************************************************)
(* Properties of the calculator, checked under SpecPrice.                  *)
(***************************************************************************)
Returned == last.op = "calculate_price" /\ last.pc = "returned" /\ ~last.raised

CalledService == The(get_service(last.service_id))

FlatRule(p) == p.rule_type \in {"flat_rate", "flat_tier"}

\* C1: a call whose pricing id is the id of a flat_rate or flat_tier rule of
\* the service returns exactly that rule's price, whatever the base price,
\* the quantities, the hours and the other rules of the service.
C1_FlatPriceIsExact ==
    Returned =>
        \A i \in 1..Len(CalledService.pricing) :
            LET p == CalledService.pricing[i]
            IN (FlatRule(p) /\ last.pricing_id = Some(p.id)) => last.result = p.price

RECURSIVE SumOver(_, _, _)
\* The sum of f[i] over i in lo..hi.
SumOver(f, lo, hi) == IF lo > hi THEN 0 ELSE f[lo] + SumOver(f, lo + 1, hi)

\* What a per_room rule charges: the rooms beyond the first, per label.
RoomCharge(p, bedroom_qty, bath_qty) ==
    (IF Contains(p.label, Bedroom) /\ bedroom_qty > 1
     THEN p.price * (bedroom_qty - 1) ELSE 0)
    + (IF Contains(p.label, Bathroom) /\ bath_qty > 1
       THEN p.price * (bath_qty - 1) ELSE 0)

\* What an hourly rule charges: every hour.
HourCharge(p, hours) == IF hours > 0 THEN p.price * hours ELSE 0

ChargeWithoutFlat(p, bedroom_qty, bath_qty, hours) ==
    IF p.rule_type = "per_room" THEN RoomCharge(p, bedroom_qty, bath_qty)
    ELSE IF p.rule_type = "hourly" THEN HourCharge(p, hours)
    ELSE 0

\* C2: with no pricing id selected, every flat_rate/flat_tier rule is skipped
\* and the result is base_price plus the per_room excess charges plus
\* price * hours for each hourly rule when hours > 0; with one bedroom, one
\* bathroom and no hours it is exactly base_price.
C2_NoPricingIdSkipsFlat ==
    (Returned /\ last.pricing_id = None) =>
        LET rules == CalledService.pricing
            charge == [i \in 1..Len(rules) |->
                         ChargeWithoutFlat(rules[i], last.bedroom_qty,
                                           last.bath_qty, last.hours)]
        IN /\ last.result = CalledService.base_price + SumOver(charge, 1, Len(rules))
           /\ (last.bedroom_qty = 1 /\ last.bath_qty = 1 /\ last.hours = 0)
                 => last.result = CalledService.base_price

\* A call without pricing id on a service that has a flat rule (skipped) and
\* an hourly rule charged for three hours has returned.
C2_Witness ==
    /\ Returned
    /\ last.pricing_id = None
    /\ last.hours = 3
    /\ \E i, j \in 1..Len(CalledService.pricing) :
         /\ FlatRule(CalledService.pricing[i])
         /\ CalledService.pricing[j].rule_type = "hourly"
    /\ last.result = CalledService.base_price + 60

\* C3: each per_room rule whose label contains "Bedroom" (resp. "Bathroom")
\* adds price * (qty - 1) to total_price when the bedroom (resp. bath)
\* quantity is greater than 1 and nothing when it is 1 or less.
C3_PerRoomChargesExcess ==
    Returned =>
        \A i \in 1..Len(CalledService.pricing) :
            LET p == CalledService.pricing[i]
            IN p.rule_type = "per_room" =>
                 last.totals[i + 1] - last.totals[i]
                    = RoomCharge(p, last.bedroom_qty, last.bath_qty)

\* A Bedroom rule priced 50 has added 100 for three bedrooms, and a rule with
\* one bedroom or fewer has added nothing.
C3_Witness ==
    /\ Returned
    /\ last.bedroom_qty = 3
    /\ \E i \in 1..Len(CalledService.pricing) :
         /\ CalledService.pricing[i].rule_type = "per_room"
         /\ CalledService.pricing[i].label = LabelBedroom
         /\ CalledService.pricing[i].price = 50
         /\ last.totals[i + 1] - last.totals[i] = 100

(***************************************************************************)
(* Properties of payments and bookings, checked under Spec.                *)
(***************************************************************************)
\* A submission that passes the handler's validation.
ValidPaymentForm(form) ==
    /\ form.confirm # Some("yes")
    /\ \A k \in AddressKeys : form[k] # None /\ strip(The(form[k])) # <<>>
    /\ form.payment_method \notin {None, Some("")}

\* The payments row of booking b shows what the form submitted.
ShowsForm(p, form) ==
    /\ p.street_address = strip(The(form.street_address))
    /\ p.city = strip(The(form.city))
    /\ p.province = strip(The(form.province))
    /\ p.region = strip(The(form.region))
    /\ p.payment_method = The(form.payment_method)

\* A submission was stored: the handler inserted or updated the payment.
Stored(reply) == reply.op = "payment" /\ reply.note \in {"inserted", "updated"}

\* C4: after any sequence of successful submissions for a booking the
\* payments table holds exactly one row for it: the first submission inserts
\* the row, every later one updates that same row in place with the address
\* fields and method just submitted.  No submission fails on the unique
\* booking_id.
C4_OnePaymentPerBooking ==
    [][last'.op = "payment"
       => /\ last'.code # 500
          /\ Stored(last')
             => LET b == last'.req[1]
                    form == last'.req[2]
                IN /\ ValidPaymentForm(form)
                   /\ (last'.note = "inserted") = (get_payment(b) = {})
                   /\ \E p \in payments' :
                        /\ {q \in payments' : q.booking_id = b} = {p}
                        /\ ShowsForm(p, form)
                        /\ \A q \in get_payment(b) : q.id = p.id
                        /\ \A q \in payments : q.id # p.id \/ q.booking_id = b
                   /\ {q \in payments' : q.booking_id # b}
                         = {q \in payments : q.booking_id # b}]_vars

\* A second submission has updated the only payment row in place: the row
\* still has the id of the first insert and shows the second form.
C4_Witness ==
    /\ Stored(last)
    /\ last.note = "updated"
    /\ payment_seq = 1
    /\ \E p \in payments :
         /\ payments = {p}
         /\ p.id = 1
         /\ p.booking_id = last.req[1]
         /\ p.street_address = strip(Oak)
         /\ p.payment_method = "GCASH"

\* C5: payment_status is set to "pending" only when the row is inserted; a
\* later submission for the same booking leaves payment_status as it was,
\* so a status set by the admin survives a resubmission.
C5_ResubmissionKeepsStatus ==
    [][last'.op = "payment"
       => /\ \A q \in payments' :
                IF \E p \in payments : p.id = q.id
                THEN \E p \in payments :
                        p.id = q.id /\ q.payment_status = p.payment_status
                ELSE q.payment_status = "pending"
          /\ \A p \in payments : \E q \in payments' : q.id = p.id]_vars

\* A resubmission has just updated a payment that the admin had marked paid
\* or cancelled.
C5_Witness ==
    /\ Stored(last)
    /\ last.note = "updated"
    /\ \E p \in payments :
         /\ p.booking_id = last.req[1]
         /\ p.payment_status \in {"paid", "cancelled"}

\* C6: in every reachable state each payment row's amount equals the
\* total_price of the booking it belongs to.
C6_AmountIsTotalPrice ==
    \A p \in payments : \A b \in bookings :
        b.id = p.booking_id => p.amount = b.total_price

\* The admin has edited a booking whose payment exists: the amount is still
\* the booking's total price of 600.
C6_Witness ==
    /\ last = Reply("update_booking", 200, "Booking updated successfully", <<>>)
    /\ \E p \in payments, b \in bookings :
         /\ b.id = p.booking_id
         /\ p.payment_status = "cancelled"
         /\ p.amount = 600
         /\ b.total_price = 600

\* C8: after delete_booking(b) no row of b is left in bookings, payments or
\* booking_options, looking b up finds nothing, and the rows of the other
\* bookings are as they were.
C8_DeleteCascades ==
    [][\A b \in BookingIdInputs :
          (last'.op = "delete_booking" /\ last'.req = <<b>>)
          => /\ \A r \in bookings' : r.id # b
             /\ \A r \in payments' : r.booking_id # b
             /\ \A r \in booking_options' : r.booking_id # b
             /\ (get_booking(b))' = None
             /\ (get_payment(b))' = {}
             /\ bookings' = {r \in bookings : r.id # b}
             /\ payments' = {r \in payments : r.booking_id # b}
             /\ booking_options' = {r \in booking_options : r.booking_id # b}]_vars

\* Two bookings had payments; one of them has just been deleted with its
\* payment and the other one is intact.
C8_Witness ==
    /\ last.op = "delete_booking"
    /\ booking_seq = 2
    /\ payment_seq = 2
    /\ \E b \in bookings, p \in payments :
         /\ bookings = {b}
         /\ payments = {p}
         /\ p.booking_id = b.id
         /\ get_booking(b.id) # None

(***************************************************************************)
(* Properties checked under SpecCatalog.                                   *)
(***************************************************************************)
\* C7: a booking's total_price is what calculate_price returns for the
\* submitted service, quantities, hours and pricing id when the booking is
\* created, and no later call changes it.
C7_TotalPriceIsSnapshot ==
    [][/\ \A b \in bookings : \A c \in bookings' :
             c.id = b.id => c.total_price = b.total_price
       /\ \A c \in bookings' :
             (\A b \in bookings : b.id # c.id)
             => c.total_price = calculate_price(c.service_id, c.bedroom_qty,
                                    c.bath_qty, c.hours, Some(c.pricing_id))]_vars

\* The catalog has just been replaced by one with other prices, and a
\* booking made before keeps a total that the new catalog would not give.
C7_Witness ==
    /\ last.op = "load_services_and_pricing"
    /\ \E b \in bookings :
         /\ b.total_price = 600
         /\ b.date = "2025-02-20"
         /\ get_payment(b.id) # {}
         /\ calculate_price(b.service_id, b.bedroom_qty, b.bath_qty, b.hours,
                            Some(b.pricing_id)) # b.total_price

\* C9: the first rendering of the booking page of a service that has no
\* pricing rule creates exactly one rule (flat_rate, "Standard Service",
\* priced at the service's base_price); a service that has a rule (also one
\* created this way) gets none.
C9_LazyDefaultRule ==
    [][last'.op = "book_get"
       => LET service_id == last'.req[1]
          IN IF /\ get_service(service_id) # None
                /\ \A i \in 1..Len(service_pricing) :
                      service_pricing[i].service_id # service_id
             THEN /\ Len(service_pricing') = Len(service_pricing) + 1
                  /\ SubSeq(service_pricing', 1, Len(service_pricing)) = service_pricing
                  /\ LET p == service_pricing'[Len(service_pricing')]
                     IN /\ p.service_id = service_id
                        /\ p.rule_type = "flat_rate"
                        /\ p.label = StandardService
                        /\ p.price = The(get_service(service_id)).base_price
                        /\ \A i \in 1..Len(service_pricing) : service_pricing[i].id # p.id
             ELSE service_pricing' = service_pricing]_vars

\* The page of service 2, which had no rule, has been rendered again after
\* its default rule was created: the service still has that one rule.
C9_Witness ==
    /\ last = Reply("book_get", 200, "rendered", <<2>>)
    /\ services = DefA.services
    /\ Len(service_pricing) = 3
    /\ service_pricing[3] =
         [id |-> 3, service_id |-> 2, rule_type |-> "flat_rate",
          label |-> StandardService, price |-> 1000]

(***************************************************************************)
(* Properties checked under SpecBooking.                                   *)
(***************************************************************************)
\* A field the booking form requires is absent or blank.
MissingField(form) ==
    \/ \E k \in CustomerKeys : form[k] = None \/ form[k] = Some("")
    \/ form.pricing_id = None
    \/ form.pricing_id = Some(<<>>)

\* C10: a booking posted with name, email, phone or date missing (absent or
\* blank), or with no pricing id, is answered 400 and no booking row is
\* stored.
C10_MissingFieldRejected ==
    [][\A service_id \in ServiceIdInputs : \A form \in WideBookForms :
          (/\ last'.op = "book_post"
           /\ get_service(service_id) # None
           /\ MissingField(form)
           /\ book_post(service_id, form))
          => /\ last'.code = 400
             /\ bookings' = bookings]_vars


(***************************************************************************)
(* Properties of the payment step, checked under SpecFlow.                 *)
(***************************************************************************)
\* An address field of the form is absent, empty or only white space.
BlankAddress(form) ==
    \E k \in AddressKeys : form[k] = None \/ strip(The(form[k])) = <<>>

\* The form names no payment method.
EmptyMethod(form) == form.payment_method \in {None, Some("")}

ValidationNotes ==
    {"Please fill in all address fields.", "Please select a payment method."}

\* C11: a submission of payment details for an existing booking in which
\* one of the four address fields is blank or the payment method is empty
\* is answered with a validation message and changes nothing in the store:
\* no payment row is inserted and every existing row keeps its values.
C11_InvalidSubmissionChangesNothing ==
    [][(last'.op = "payment" /\ last'.req # <<>>)
       => LET form == last'.req[Len(last'.req)]
          IN (BlankAddress(form) \/ EmptyMethod(form))
             => /\ last'.code = 200
                /\ last'.note \in ValidationNotes
                /\ payments' = payments
                /\ payment_seq' = payment_seq
                /\ UNCHANGED <<catalog, bookings, booking_seq, booking_options>>]_vars

\* A form whose street is only white space was refused for the only
\* booking, whose payment the admin had marked paid; the row still shows
\* what was stored.
C11_Witness ==
    /\ last.op = "payment"
    /\ last.note = "Please fill in all address fields."
    /\ last.req = <<[ValidCash EXCEPT !.street_address = Some(<<" ">>)]>>
    /\ \E b \in bookings : bookings = {b}
    /\ \E p \in payments :
         /\ payments = {p}
         /\ p.payment_status = "paid"
         /\ p.street_address = Elm
         /\ p.payment_method = "Cash"

PaymentMethods == {"Cash", "Card", "GCASH"}

\* C15: every payment row carries one of the methods Cash, Card, GCASH; a
\* submission naming another method leaves no row carrying it.
C15_MethodIsRecognized == \A p \in payments : p.payment_method \in PaymentMethods

\* C16: the confirmation step of a booking, the POST with confirm=yes that
\* redirects to the confirmation page or the confirmation page itself, is
\* reached only when a payment row exists for that booking.
C16_ConfirmationNeedsPayment ==
    [][\A b \in BookingIdInputs :
         (\/ payment(b, "POST", ConfirmForm) /\ last'.code = 302
          \/ confirmation(b) /\ last'.code = 200)
         => get_payment(b) # {}]_vars


(***************************************************************************)
(* Properties of the booking form, checked under SpecBooking.              *)
(***************************************************************************)
\* C12: end to end, booking service 1 (base price 500, a per_room Bedroom
\* rule priced 100) with two bedrooms and no pricing id stores a booking
\* whose total_price is 600, the amount the payment step and the
\* confirmation page then show.
C12_EndToEndStoresTotal ==
    [][book_post(1, NoPricingForm)
       => /\ last'.code = 302
          /\ \E b \in bookings' :
               /\ b.id = booking_seq'
               /\ b.id > booking_seq
               /\ b.total_price = 600]_vars

\* C19: every booking created is retrievable while nothing deletes it and
\* the catalog is not reloaded: get_booking finds it, whatever pricing id
\* the form was posted with.
C19_CreatedBookingIsRetrievable == \A b \in bookings : get_booking(b.id) # None


(***************************************************************************)
(* Properties of the catalog, checked under SpecCatalog.                   *)
(***************************************************************************)
\* The catalog tables hold exactly what loading def puts there, whatever
\* ids the pricing rules were given.
LoadedFrom(def) ==
    /\ services = def.services
    /\ Len(service_pricing) = Len(def.pricing_rules)
    /\ \A i \in 1..Len(service_pricing) :
         service_pricing[i] = PricingRow(service_pricing[i].id, def.pricing_rules[i])

\* C13: loading is idempotent: loading the definitions the catalog was
\* loaded from once more leaves the services and the pricing rules as they
\* were, the id of every service and of every pricing rule included.
C13_LoadIsIdempotent ==
    [][\A def \in CatalogDefs :
         (LoadedFrom(def) /\ load_services_and_pricing(def))
         => /\ services' = services
            /\ service_pricing' = service_pricing]_vars

\* C14: after add_service reports success the catalog holds one more
\* service than before, with a fresh id and the given name and price and no
\* pricing rule; get_service returns it; the other services and the pricing
\* rules are unchanged.
C14_AddedServiceIsInCatalog ==
    [][\A form \in ServiceForms :
         (add_service(form.name, form.price) /\ last'.code = 200)
         => \E s \in services' :
               /\ \A t \in services : t.id # s.id
               /\ s.name = form.name
               /\ s.base_price = int(The(form.price))
               /\ services' = services \cup {s}
               /\ service_pricing' = service_pricing
               /\ \A i \in 1..Len(service_pricing) : service_pricing[i].service_id # s.id]_vars


(***************************************************************************)
(* Properties of the bulk update, checked under Spec.                      *)
(***************************************************************************)
\* What the statements on the payments table do to the rows of the ids
\* they ran for.
AppliedToPayments(rows, ids, action) ==
    IF action = Some("mark_paid") THEN set_payment_status(rows, ids, "paid")
    ELSE IF action = Some("cancel") THEN set_payment_status(rows, ids, "cancelled")
    ELSE IF action = Some("delete") THEN delete_from_payments(rows, ids)
    ELSE rows

\* C17: the bulk update is best-effort per row: when the statement of one
\* id fails, what was applied for the ids before it stays persisted; when
\* nothing fails, every id has received what the single-row operation does
\* (the status update, or the delete of the booking with its payment).
C17_BulkIsBestEffort ==
    [][\A booking_ids \in BulkIdInputs, action \in BulkActions :
         (bulk_update_bookings(booking_ids, action) /\ last'.code # 400)
         => LET ids == Executed(booking_ids)
            IN /\ payments' = AppliedToPayments(payments, ids, action)
               /\ last'.code = 200
                  => bookings' = IF action = Some("delete")
                                 THEN delete_from_bookings(bookings, ids)
                                 ELSE bookings]_vars


(***************************************************************************)
(* Properties of concurrent submissions, checked under SpecRace.           *)
(***************************************************************************)
\* C18: however the reads and writes of two submissions for a booking
\* interleave, the payments table never holds two rows of one booking.  A
\* submission that read no payment inserts the row if there is still none
\* when it writes, and otherwise fails on the duplicate key and changes
\* nothing; a submission that read the row the other one inserted updates it.
C18_RaceNeverDuplicates ==
    [][/\ \A p \in payments', q \in payments' : p.booking_id = q.booking_id => p = q
       /\ \A t \in Threads :
            (requests[t] # None /\ requests'[t] = None)
            => LET r == The(requests[t])
                   b == r.booking_id
               IN IF r.payment # None
                  THEN /\ last' = Reply("payment", 200, "updated", <<b, r.form>>)
                       /\ {p.id : p \in payments'} = {p.id : p \in payments}
                       /\ \A p \in payments' : p.booking_id = b => ShowsForm(p, r.form)
                  ELSE IF get_payment(b) = {}
                  THEN /\ last' = Reply("payment", 200, "inserted", <<b, r.form>>)
                       /\ \E p \in payments' :
                            /\ payments' = payments \cup {p}
                            /\ p.booking_id = b
                            /\ ShowsForm(p, r.form)
                  ELSE /\ last' = Reply("payment", 500, "IntegrityError", <<b, r.form>>)
                       /\ payments' = payments]_vars

\* Both threads read that booking 1 had no payment; one inserted the row,
\* the other has just failed on the duplicate key, and the only row is the
\* one of the first.
C18_Witness ==
    /\ last.op = "payment"
    /\ last.code = 500
    /\ requests = NoRequests
    /\ \E p \in payments :
         /\ payments = {p}
         /\ p.booking_id = last.req[1]
         /\ ~ShowsForm(p, last.req[2])

\* C20: in every reachable state, also when a submission's write comes
\* after a delete of its booking, each payment row belongs to a booking
\* that exists.
C20_NoOrphanPayment ==
    \A p \in payments : \E b \in bookings : b.id = p.booking_id

====
